---- MODULE Spec2Model ----
(***************************************************************************)
(* PyBacker (py_backer.py): a polling backup loop.  Strings are modelled   *)
(* as sequences of one-character strings, paths as sequences of component  *)
(* names, so that parsing, formatting and path comparison are computed     *)
(* the way the Python code computes them.                                  *)
(***************************************************************************)
EXTENDS Integers, Sequences, FiniteSets, TLC

(***************************************************************************)
(* Bounds of the model (not program constants).                            *)
(***************************************************************************)
Now0 == 5
\* value of time.time() at the first tick (any value >= every delay)

MaxElapsed == 5
\* the clock stops advancing MaxElapsed seconds after Now0

MaxTouches == 1
\* number of modifications the environment makes to the source trees

MaxMtime == 2
\* modification times are drawn from 0..MaxMtime

MaxScanErrors == 1
\* number of scans that an OSError cuts short

(***************************************************************************)
(* Python string helpers.                                                  *)
(***************************************************************************)
Digits == <<"0", "1", "2", "3", "4", "5", "6", "7", "8", "9">>

IsDigit(c) == \E i \in 1..10 : Digits[i] = c

DigitVal(c) == (CHOOSE i \in 1..10 : Digits[i] = c) - 1

RECURSIVE Concat(_)
Concat(ss) == IF ss = <<>> THEN <<>> ELSE Head(ss) \o Concat(Tail(ss))

RECURSIVE Join(_, _)
\* sep.join(parts)
Join(parts, sep) ==
    IF parts = <<>> THEN <<>>
    ELSE IF Len(parts) = 1 THEN parts[1]
    ELSE parts[1] \o sep \o Join(Tail(parts), sep)

RECURSIVE Split(_, _)
\* s.split(sep) for a one-character separator
Split(s, sep) ==
    IF \A i \in 1..Len(s) : s[i] # sep THEN <<s>>
    ELSE LET i == CHOOSE j \in 1..Len(s) :
                     s[j] = sep /\ \A h \in 1..(j - 1) : s[h] # sep
         IN  <<SubSeq(s, 1, i - 1)>> \o Split(SubSeq(s, i + 1, Len(s)), sep)

RECURSIVE Strip(_)
\* s.strip() (blanks only)
Strip(s) ==
    IF s = <<>> THEN s
    ELSE IF Head(s) = " " THEN Strip(Tail(s))
    ELSE IF s[Len(s)] = " " THEN Strip(SubSeq(s, 1, Len(s) - 1))
    ELSE s

AllDigits(s) == s # <<>> /\ \A i \in 1..Len(s) : IsDigit(s[i])

RECURSIVE DecVal(_)
DecVal(s) == IF s = <<>> THEN 0 ELSE 10 * DecVal(SubSeq(s, 1, Len(s) - 1)) + DigitVal(s[Len(s)])

Unsigned(s) == IF s # <<>> /\ Head(s) \in {"-", "+"} THEN Tail(s) ELSE s

IntOk(s) == AllDigits(Unsigned(Strip(s)))
\* int(s) does not raise ValueError

IntVal(s) ==
    LET t == Strip(s)
    IN  IF t # <<>> /\ Head(t) = "-" THEN 0 - DecVal(Tail(t)) ELSE DecVal(Unsigned(t))

RECURSIVE NatStr(_)
NatStr(n) == IF n < 10 THEN <<Digits[n + 1]>> ELSE NatStr(n \div 10) \o <<Digits[(n % 10) + 1]>>

Str(n) == IF n < 0 THEN <<"-">> \o NatStr(0 - n) ELSE NatStr(n)
\* str(n) for an integer

(***************************************************************************)
(* VersionCodec.                                                           *)
(***************************************************************************)
DefaultVersion == <<1, 0, 0, 0>>

FormatVersion(components) == Join([i \in 1..Len(components) |-> Str(components[i])], <<".">>)
\* '.'.join(map(str, version_components))

NotAString == <<"number">>
\* a project_version of config.json that is a JSON number, not a string

parse_version(version_str) ==
    IF version_str = NotAString THEN DefaultVersion
    ELSE
    LET m == Split(Strip(version_str), ".")
    IN  IF Len(m) = 4 /\ \A i \in 1..4 : AllDigits(m[i])
        THEN [i \in 1..4 |-> DecVal(m[i])]
        ELSE LET parts  == Split(version_str, ".")
                 padded == IF Len(parts) >= 4 THEN SubSeq(parts, 1, 4)
                           ELSE parts \o [i \in 1..(4 - Len(parts)) |-> <<"0">>]
             IN  IF \A i \in 1..4 : IntOk(padded[i])
                 THEN [i \in 1..4 |-> IntVal(padded[i])]
                 ELSE DefaultVersion
\* version_str.strip() raises AttributeError on a value that is not a string

increment_build_number_patch(version_components) ==
    FormatVersion([version_components EXCEPT ![3] = @ + 1, ![4] = @ + 1])
\* a slip of the index: the patch component is raised as well

increment_build_number(version_components) ==
    FormatVersion([version_components EXCEPT ![4] = @ + 1])

(***************************************************************************)
(* Paths: a path is the sequence of its component names, a name is a       *)
(* string.  The empty sequence is the empty path string.                   *)
(***************************************************************************)
Sep == <<"/">>

RECURSIVE normalize_path(_)
\* Path(p).resolve() on an absolute path: "." and ".." components collapse
normalize_path(path_str) ==
    IF path_str = <<>> THEN <<>>
    ELSE LET init == normalize_path(SubSeq(path_str, 1, Len(path_str) - 1))
             last == path_str[Len(path_str)]
         IN  IF last = <<".">> THEN init
             ELSE IF last = <<".", ".">>
                  THEN (IF init = <<>> THEN init ELSE SubSeq(init, 1, Len(init) - 1))
                  ELSE Append(init, last)

path_join(root, name) == Append(root, name)
\* os.path.join(root, name) for a single relative name

basename(path) == path[Len(path)]

dirname(path) == SubSeq(path, 1, Len(path) - 1)

CommonLen(p, q) ==
    LET n == IF Len(p) < Len(q) THEN Len(p) ELSE Len(q)
        same == {i \in 0..n : \A j \in 1..i : p[j] = q[j]}
    IN  CHOOSE i \in same : \A h \in same : h <= i

relpath_parts(path, start) ==
    LET c == CommonLen(path, start)
    IN  [i \in 1..(Len(start) - c) |-> <<".", ".">>] \o SubSeq(path, c + 1, Len(path))
\* components of os.path.relpath(path, start)

relpath(path, start) ==
    LET parts == relpath_parts(path, start)
    IN  IF parts = <<>> THEN <<".">> ELSE Join(parts, Sep)
\* os.path.relpath(path, start) as a string

startswith_dotdot(s) == Len(s) >= 2 /\ s[1] = "." /\ s[2] = "."
\* s.startswith('..')

is_path_excluded(path, excluded_paths) ==
    IF excluded_paths = <<>> THEN FALSE
    ELSE LET normalized_path == normalize_path(path)
         IN  \E i \in 1..Len(excluded_paths) :
                \/ normalized_path = excluded_paths[i]
                \/ ~startswith_dotdot(relpath(normalized_path, excluded_paths[i]))

create_versioned_backup_path(base_backup_dir, project_name, project_version) ==
    path_join(base_backup_dir, project_name \o <<"_", "v">> \o project_version)

(***************************************************************************)
(* Start-ups: the content of config.json and the source trees found on     *)
(* disk when the process starts, and what the main block makes of them.    *)
(***************************************************************************)
nS == <<"s">>
nT == <<"t">>
nU == <<"u">>
nNx == <<"n", "x">>
nEx == <<"e", "x">>
nF == <<"f">>
nG == <<"g">>
nH == <<"h">>
nB0 == <<"b", "0">>
nB1 == <<"b", "1">>
nB2 == <<"b", "2">>
nW == <<"w">>
nD == <<"d">>

NoNames == <<>>

TreeS ==
    (<<nS>> :> [dirs |-> <<nEx>>, files |-> <<nF>>]) @@
    (<<nS, nEx>> :> [dirs |-> NoNames, files |-> <<nG>>])
\* /s holds the directory ex and the file f; /s/ex holds the file g

TreeT == (<<nT>> :> [dirs |-> NoNames, files |-> <<nH>>])
\* /t holds the file h

TreeU ==
    (<<nU>> :> [dirs |-> <<nEx>>, files |-> <<nF>>]) @@
    (<<nU, nEx>> :> [dirs |-> NoNames, files |-> NoNames])
\* /u holds the empty directory ex and the file f

TreeW ==
    (<<nW>> :> [dirs |-> <<nD>>, files |-> NoNames]) @@
    (<<nW, nD>> :> [dirs |-> NoNames, files |-> <<nG>>])
\* /w holds the directory d; /w/d holds the file g

Rel(path) == [abs |-> FALSE, path |-> path]
\* an excluded_dirs entry written relative to the source directory

NoDict == <<>>
\* {} (an absent key of config.json reads as {})

Startups == <<
    \* three configured pairs with different sources; /nx does not exist
    [file |-> "ok",
     source_dirs |-> (<<"0">> :> <<nS>>) @@ (<<"1">> :> <<nNx>>) @@ (<<"2">> :> <<nT>>),
     backup_dirs |-> (<<"0">> :> <<nB0>>) @@ (<<"1">> :> <<nB1>>) @@ (<<"2">> :> <<nB2>>),
     backup_times |-> (<<"0">> :> <<"2">>) @@ (<<"1">> :> <<"1">>),
     excluded_dirs |-> (<<"0">> :> <<Rel(<<nEx>>)>>),
     project_name |-> <<"p">>,
     project_version |-> <<"1", ".", "0", ".", "0", ".", "9">>,
     listing |-> TreeS @@ TreeT],
    \* two pairs that name the same source directory
    [file |-> "ok",
     source_dirs |-> (<<"0">> :> <<nU>>) @@ (<<"1">> :> <<nU>>),
     backup_dirs |-> (<<"0">> :> <<nB0>>) @@ (<<"1">> :> <<nB1>>),
     backup_times |-> (<<"0">> :> <<"2">>) @@ (<<"1">> :> <<"1">>),
     excluded_dirs |-> (<<"0">> :> <<Rel(<<nEx>>)>>),
     project_name |-> <<"p">>,
     project_version |-> <<"2", ".", "5">>,
     listing |-> TreeU],
    \* index 0 has a backup directory only, index 1 is the one complete pair
    [file |-> "ok",
     source_dirs |-> (<<"1">> :> <<nW>>),
     backup_dirs |-> (<<"0">> :> <<nB0>>) @@ (<<"1">> :> <<nB1>>),
     backup_times |-> (<<"0">> :> <<"2">>) @@ (<<"1">> :> <<"1">>),
     excluded_dirs |-> (<<"0">> :> <<Rel(<<nD, nG>>)>>) @@ (<<"1">> :> <<Rel(<<nD>>)>>),
     project_name |-> <<"p">>,
     project_version |-> <<"3", ".", "0", ".", "0", ".", "0">>,
     listing |-> TreeW],
    \* the only configured source directory does not exist
    [file |-> "ok",
     source_dirs |-> (<<"0">> :> <<nNx>>),
     backup_dirs |-> (<<"0">> :> <<nB0>>),
     backup_times |-> NoDict,
     excluded_dirs |-> NoDict,
     project_name |-> <<"p">>,
     project_version |-> <<"1", ".", "0", ".", "0", ".", "0">>,
     listing |-> TreeT],
    \* no index has both a source and a backup directory
    [file |-> "ok",
     source_dirs |-> (<<"0">> :> <<nT>>),
     backup_dirs |-> (<<"1">> :> <<nB1>>),
     backup_times |-> NoDict,
     excluded_dirs |-> NoDict,
     project_name |-> <<"p">>,
     project_version |-> <<"1", ".", "0", ".", "0", ".", "0">>,
     listing |-> TreeT],
    \* config.json does not exist
    [file |-> "missing",
     source_dirs |-> NoDict, backup_dirs |-> NoDict, backup_times |-> NoDict,
     excluded_dirs |-> NoDict, project_name |-> <<"p">>,
     project_version |-> <<"1", ".", "0", ".", "0", ".", "0">>,
     listing |-> TreeT],
    \* config.json is not JSON
    [file |-> "unparsable",
     source_dirs |-> NoDict, backup_dirs |-> NoDict, backup_times |-> NoDict,
     excluded_dirs |-> NoDict, project_name |-> <<"p">>,
     project_version |-> <<"1", ".", "0", ".", "0", ".", "0">>,
     listing |-> TreeT],
    \* a delay that int() rejects
    [file |-> "ok",
     source_dirs |-> (<<"0">> :> <<nT>>),
     backup_dirs |-> (<<"0">> :> <<nB0>>),
     backup_times |-> (<<"0">> :> <<"s", "o", "o", "n">>),
     excluded_dirs |-> NoDict,
     project_name |-> <<"p">>,
     project_version |-> <<"1", ".", "0", ".", "0", ".", "0">>,
     listing |-> TreeT]
>>

DictGet(dict, key, default) == IF key \in DOMAIN dict THEN dict[key] ELSE default
\* dict.get(key, default)

MaxIndex(dict) ==
    IF DOMAIN dict = {} THEN 0 - 1
    ELSE LET ints == {IntVal(key) : key \in DOMAIN dict}
         IN  CHOOSE m \in ints : \A n \in ints : n <= m
\* max((int(k) for k in dict.keys()), default=-1)

ConfiguredIndices(source_dirs_dict, backup_dirs_dict) ==
    LET a == MaxIndex(source_dirs_dict)
        b == MaxIndex(backup_dirs_dict)
        max_index == IF a < b THEN b ELSE a
    IN  SelectSeq([i \in 1..(max_index + 1) |-> i - 1],
                  LAMBDA i : /\ DictGet(source_dirs_dict, Str(i), <<>>) # <<>>
                             /\ DictGet(backup_dirs_dict, Str(i), <<>>) # <<>>)
\* lines 371-385: the indices that have both paths, in increasing order

normalize_excluded_paths(excluded_dirs_dict, source_dirs) ==
    LET n    == Len(source_dirs)
        keys == {key \in DOMAIN excluded_dirs_dict :
                    /\ IntOk(key)
                    /\ IntVal(key) < n
                    /\ IntVal(key) >= 0 - n}
        at(index) == IF index >= 0 THEN index + 1 ELSE n + index + 1
        full(source_dir, e) == IF e.abs THEN normalize_path(e.path)
                               ELSE normalize_path(source_dir \o e.path)
    IN  [index \in {IntVal(key) : key \in keys} |->
            LET key  == CHOOSE c \in keys : IntVal(c) = index
                list == SelectSeq(excluded_dirs_dict[key], LAMBDA e : e.path # <<>>)
                source_dir == normalize_path(source_dirs[at(index)])
            IN  [j \in 1..Len(list) |-> full(source_dir, list[j])]]
\* the exclusion lists, keyed by position in the source_dirs list

MainArguments(config_data) ==
    LET indices     == ConfiguredIndices(config_data.source_dirs, config_data.backup_dirs)
        source_dirs == [j \in 1..Len(indices) |-> config_data.source_dirs[Str(indices[j])]]
        backup_dirs == [j \in 1..Len(indices) |-> config_data.backup_dirs[Str(indices[j])]]
    IN  [source_dirs |-> source_dirs,
         backup_dirs |-> backup_dirs,
         backup_times |-> config_data.backup_times,
         excluded_by_index |-> normalize_excluded_paths(config_data.excluded_dirs, source_dirs),
         project_name |-> config_data.project_name,
         project_version |-> config_data.project_version,
         listing |-> config_data.listing]
\* lines 361-392 and 402: the arguments main passes to monitor_directories

RECURSIVE ItemsUnder(_, _)
ItemsUnder(listing, root) ==
    IF root \notin DOMAIN listing THEN {}
    ELSE LET e == listing[root]
         IN  {path_join(root, e.dirs[i]) : i \in 1..Len(e.dirs)}
             \cup {path_join(root, e.files[i]) : i \in 1..Len(e.files)}
             \cup UNION {ItemsUnder(listing, path_join(root, e.dirs[i])) : i \in 1..Len(e.dirs)}

AllItems(cfg) == UNION {ItemsUnder(cfg.listing, cfg.source_dirs[i]) : i \in 1..Len(cfg.source_dirs)}
\* every file and directory below a source root

IsDirItem(cfg, path) == path \in DOMAIN cfg.listing

OldFiles == {<<nS, nF>>, <<nU, nF>>}
\* files that may carry the modification time 0 (the epoch) when the process starts

InitMtimes(cfg) == {m \in [AllItems(cfg) -> 0..1] : \A q \in AllItems(cfg) : m[q] = 0 => q \in OldFiles}

(***************************************************************************)
(* State.                                                                  *)
(***************************************************************************)
VARIABLES
    startup,            \* which of Startups the process was started with
    mtime,              \* the source trees on disk: item path -> modification time, or Gone
    clock,              \* time.time()
    config_file,        \* content of config.json on disk
    backup_fs,          \* the destination paths written below the backup directories
    pc,                 \* position of the monitor loop
    current_time,       \* monitor_directories: current_time
    idx,                \* position in valid_pairs of the pair whose turn it is
    item_mod_times,     \* source_dir -> (item path -> recorded modification time)
    last_backup_times,  \* source_dir -> timestamp
    current_version,    \* the in-memory version string
    changed_items,      \* changed_items of the latest scan
    k,                  \* position in changed_items of the next item to copy
    backup_success,     \* backup_success of the commit
    new_version,        \* new_version of the commit
    scan_error,         \* the latest scan printed "Error accessing source directory"
    copy_log,           \* history: the copy_item calls of the commit and what they returned
    prev_obs,           \* history: per pair, the modification times its latest scan read
    pending_retry,      \* history: per pair, the items and version of a failed commit
    io_in_progress,     \* history: the operation that a KeyboardInterrupt cut short
    touches,            \* number of modifications made by the environment
    scan_errors,        \* number of scans cut short by an OSError
    exit_status,        \* exit status of the process, NoExit while it runs
    arguments,          \* what main passes to monitor_directories (lines 361-392, 402)
    call,               \* the arguments of a function called on its own, or NoCall
    result              \* what that call returned, or NoCall

vars == <<startup, arguments, call, result, exit_status, mtime, clock, config_file, backup_fs, pc, current_time, idx,
          item_mod_times, last_backup_times, current_version, changed_items, k,
          backup_success, new_version, scan_error, copy_log, prev_obs,
          pending_retry, io_in_progress, touches, scan_errors>>

cfg == arguments

Gone == 0 - 2
\* the item vanished after it was listed, or its modification time cannot be read

NoCall == <<>>
\* no function is called on its own

NoExit == 0 - 1
\* the process has not exited

NoEntry == 0 - 1
\* the dictionary has no entry for the key

Mtimes == 0..MaxMtime

DefaultDelay == 5

NoRetry == [items |-> <<>>, log |-> <<>>, version |-> <<>>]

Min(a, b) == IF a < b THEN a ELSE b

(***************************************************************************)
(* validate_directories: the pairs that are monitored, each with the index *)
(* it has in the source_dirs list.                                         *)
(***************************************************************************)
validate_directories(source_dirs, backup_dirs, listing) ==
    LET n   == Min(Len(source_dirs), Len(backup_dirs))
        all == [i \in 1..n |-> [source_dir |-> normalize_path(source_dirs[i]),
                                backup_dir |-> normalize_path(backup_dirs[i]),
                                index |-> i - 1]]
    IN  SelectSeq(all, LAMBDA p : /\ p.source_dir # <<>>
                                  /\ p.backup_dir # <<>>
                                  /\ p.source_dir \in DOMAIN listing)

valid_pairs == validate_directories(cfg.source_dirs, cfg.backup_dirs, cfg.listing)

NumPairs == Len(valid_pairs)

Sources == {valid_pairs[i].source_dir : i \in 1..NumPairs}

ConfiguredDelayText(index) == DictGet(cfg.backup_times, Str(index), Str(DefaultDelay))
\* backup_times.get(str(index), 5)

DelayOk(index) == IntOk(ConfiguredDelayText(index))
\* int(...) of line 228 does not raise

Delay(index) == IntVal(ConfiguredDelayText(index))
\* int(backup_times.get(str(index), 5))

ExcludedPaths(index) == DictGet(cfg.excluded_by_index, index, <<>>)
\* excluded_by_index.get(index, [])

Due_strict(now, last, delay) == now - last > delay
\* a slip: the delay must be exceeded, not merely reached

Due(now, last, delay) == now - last >= delay
\* current_time - last_backup_times[source_dir] >= delay

TableGet(table, item_path) == IF table[item_path] = NoEntry THEN 0 ELSE table[item_path]
\* item_mod_times[source_dir].get(item_path, 0)

(***************************************************************************)
(* The scan of one source tree (os.walk with pruning).                     *)
(***************************************************************************)
RECURSIVE WalkDir(_, _, _, _)
\* the items that reach the modification-time check, in the order of the walk
WalkDir(listing, mt, excluded_paths, root) ==
    IF root \notin DOMAIN listing \/ is_path_excluded(root, excluded_paths) THEN <<>>
    ELSE LET e     == listing[root]
             dirs  == SelectSeq(e.dirs,
                          LAMBDA n : ~is_path_excluded(path_join(root, n), excluded_paths))
             names == dirs \o e.files
             paths == [i \in 1..Len(names) |-> path_join(root, names[i])]
             items == SelectSeq(paths, LAMBDA q : ~is_path_excluded(q, excluded_paths))
             below == [i \in 1..Len(dirs) |->
                         IF mt[path_join(root, dirs[i])] = Gone THEN <<>>
                         ELSE WalkDir(listing, mt, excluded_paths, path_join(root, dirs[i]))]
         IN  items \o Concat(below)

CheckItem(table, mt, item_path) == mt[item_path] # Gone /\ mt[item_path] # TableGet(table, item_path)
\* the item exists, its modification time is readable and differs from the recorded one

RECURSIVE ScanItems(_, _, _, _)
\* lines 254-275 for a list of items: the table and the changed list afterwards
ScanItems(items, table, mt, source_dir) ==
    IF items = <<>> THEN [table |-> table, changed |-> <<>>]
    ELSE LET item_path == Head(items)
             hit  == CheckItem(table, mt, item_path)
             t1   == IF hit THEN [table EXCEPT ![item_path] = mt[item_path]] ELSE table
             rest == ScanItems(Tail(items), t1, mt, source_dir)
         IN  [table |-> rest.table,
              changed |-> (IF hit
                           THEN <<[item_path |-> item_path,
                                   rel_path |-> relpath_parts(item_path, source_dir)]>>
                           ELSE <<>>) \o rest.changed]

(***************************************************************************)
(* copy_item and update_config_version.                                    *)
(***************************************************************************)
IsPrefix(p, q) == Len(p) <= Len(q) /\ SubSeq(q, 1, Len(p)) = p

Destination(versioned_backup_dir, item) ==
    LET backup_item_path  == versioned_backup_dir \o item.rel_path
        backup_parent_dir == dirname(backup_item_path)
    IN  path_join(backup_parent_dir, basename(item.item_path))
\* lines 299-300 and 83-84: where copy_item writes the item

CopiedTree(item_path, destination, mt) ==
    {destination} \cup
    {destination \o SubSeq(d, Len(item_path) + 1, Len(d)) :
        d \in {q \in DOMAIN mt : /\ IsPrefix(item_path, q)
                                 /\ q # item_path
                                 /\ \A n \in (Len(item_path) + 1)..Len(q) :
                                        mt[SubSeq(q, 1, n)] # Gone}}
\* shutil.copytree: the directory and everything that exists below it

copy_item(fs, is_dir, item_path, destination, mt, ok) ==
    IF ~ok THEN fs
    ELSE IF is_dir
         THEN {q \in fs : ~IsPrefix(destination, q)} \cup CopiedTree(item_path, destination, mt)
         ELSE fs \cup {destination}
\* the backup tree after copy_item returned ok

Truncated == [ok |-> FALSE, project_name |-> <<>>, project_version |-> <<>>]
\* config.json opened for writing and not written: not parsable

UpdateOutcomes(file) ==
    IF file.ok THEN {"written", "unreadable", "write_failed"} ELSE {"unreadable"}
\* json.load raises on a file that is not parsable

update_config_version(file, version, outcome) ==
    IF outcome = "written"
    THEN [ok |-> TRUE, file |-> [file EXCEPT !.project_version = version]]
    ELSE IF outcome = "write_failed"
         THEN [ok |-> FALSE, file |-> Truncated]
         ELSE [ok |-> FALSE, file |-> file]

(***************************************************************************)
(* The monitor loop.                                                       *)
(***************************************************************************)
InitLoop ==
    /\ mtime \in InitMtimes(cfg)
    /\ clock = Now0
    /\ config_file = [ok |-> Startups[startup].file = "ok",
                      project_name |-> cfg.project_name,
                      project_version |-> cfg.project_version]
    /\ backup_fs = {}
    /\ exit_status = NoExit
    /\ current_time = 0
    /\ idx = 1
    /\ item_mod_times = [s \in Sources |-> [q \in AllItems(cfg) |-> NoEntry]]
    /\ last_backup_times = [s \in Sources |-> 0]
    /\ current_version = FormatVersion(parse_version(cfg.project_version))
    /\ changed_items = <<>>
    /\ k = 1
    /\ backup_success = TRUE
    /\ new_version = <<>>
    /\ scan_error = FALSE
    /\ copy_log = <<>>
    /\ prev_obs = [i \in 1..NumPairs |-> [q \in AllItems(cfg) |-> NoEntry]]
    /\ pending_retry = [i \in 1..NumPairs |-> NoRetry]
    /\ io_in_progress = "none"
    /\ touches = 0
    /\ scan_errors = 0
\* lines 210-220, and the disk and the clock when the process starts

Init ==
    /\ startup \in 1..Len(Startups)
    /\ arguments = MainArguments(Startups[startup])
    /\ InitLoop
    /\ pc = "main"
    /\ call = NoCall
    /\ result = NoCall

pair == valid_pairs[idx]

InTurn == pc = "pair" /\ idx <= NumPairs

TurnRuns == InTurn /\ DelayOk(pair.index)
\* the pair's turn has passed line 228

PairDue == Due(current_time, last_backup_times[pair.source_dir], Delay(pair.index))

NextPair_once ==
    /\ idx' = idx + 1
    /\ pc' = IF idx + 1 > NumPairs THEN "stopped" ELSE "pair"
\* a slip: the body of the while loop runs once

NextPair ==
    /\ idx' = idx + 1
    /\ pc' = IF idx + 1 > NumPairs THEN "sleep" ELSE "pair"
\* the next pair of the for loop, or the sleep of line 323 after the last one

DropCommitLocals ==
    /\ changed_items' = <<>>
    /\ k' = 1
    /\ backup_success' = TRUE
    /\ new_version' = <<>>
    /\ copy_log' = <<>>
\* the locals of the turn are dead until the next scan (lines 232-233) and the
\* next commit (lines 283-297) assign them again

EndTurn ==
    /\ last_backup_times' = [last_backup_times EXCEPT ![pair.source_dir] = current_time]
    /\ NextPair
    /\ DropCommitLocals
\* line 321

Main ==
    /\ pc = "main"
    /\ IF Startups[startup].file # "ok" \/ cfg.source_dirs = <<>> \/ cfg.backup_dirs = <<>>
       THEN pc' = "exited" /\ exit_status' = 1
       ELSE IF valid_pairs = <<>>
            THEN pc' = "exited" /\ exit_status' = 0
            ELSE pc' = "tick" /\ exit_status' = exit_status
    /\ UNCHANGED <<startup, arguments, call, result, mtime, clock, config_file, backup_fs, current_time, idx,
                   item_mod_times, last_backup_times, current_version, changed_items, k,
                   backup_success, new_version, scan_error, copy_log, prev_obs,
                   pending_retry, io_in_progress, touches, scan_errors>>
\* lines 357-359 (sys.exit(1)), 387-389 (sys.exit(1)), 203-205 (monitor_directories
\* returns and the script ends), otherwise the loop is entered

Tick ==
    /\ pc = "tick"
    /\ current_time' = clock
    /\ idx' = 1
    /\ pc' = "pair"
    /\ UNCHANGED <<startup, arguments, call, result, exit_status, mtime, clock, config_file, backup_fs, item_mod_times,
                   last_backup_times, current_version, changed_items, k, backup_success,
                   new_version, scan_error, copy_log, prev_obs, pending_retry,
                   io_in_progress, touches, scan_errors>>

UnexpectedError ==
    /\ InTurn
    /\ ~DelayOk(pair.index)
    /\ pc' = "stopped"
    /\ exit_status' = 0
    /\ UNCHANGED <<startup, arguments, call, result, mtime, clock, config_file, backup_fs, current_time, idx,
                   item_mod_times, last_backup_times, current_version, changed_items, k,
                   backup_success, new_version, scan_error, copy_log, prev_obs,
                   pending_retry, io_in_progress, touches, scan_errors>>
\* line 228 raises ValueError, line 327 catches it and monitor_directories returns

SkipPair ==
    /\ TurnRuns
    /\ ~PairDue
    /\ NextPair
    /\ UNCHANGED <<startup, arguments, call, result, exit_status, mtime, clock, config_file, backup_fs, current_time,
                   item_mod_times, last_backup_times, current_version, changed_items, k,
                   backup_success, new_version, scan_error, copy_log, prev_obs,
                   pending_retry, io_in_progress, touches, scan_errors>>

Walk == WalkDir(cfg.listing, mtime, ExcludedPaths(pair.index), pair.source_dir)

ScanPair ==
    /\ TurnRuns
    /\ PairDue
    /\ \E cut \in 0..Len(Walk) :
          LET visited == SubSeq(Walk, 1, cut)
              res == ScanItems(visited, item_mod_times[pair.source_dir], mtime,
                               pair.source_dir)
              read == {visited[i] : i \in 1..cut}
          IN  /\ cut < Len(Walk) => scan_errors < MaxScanErrors
              /\ scan_error' = (cut < Len(Walk))
              /\ scan_errors' = IF cut < Len(Walk) THEN scan_errors + 1 ELSE scan_errors
              /\ item_mod_times' = [item_mod_times EXCEPT ![pair.source_dir] = res.table]
              /\ prev_obs' = [prev_obs EXCEPT ![idx] =
                                [q \in AllItems(cfg) |->
                                    IF q \in read /\ mtime[q] # Gone THEN mtime[q]
                                    ELSE NoEntry]]
              /\ IF res.changed # <<>>
                 THEN /\ changed_items' = res.changed
                      /\ new_version' = increment_build_number(parse_version(current_version))
                      /\ backup_success' = TRUE
                      /\ k' = 1
                      /\ copy_log' = <<>>
                      /\ pc' = "copy"
                      /\ UNCHANGED <<idx, last_backup_times>>
                 ELSE EndTurn
    /\ pending_retry' = [pending_retry EXCEPT ![idx] = NoRetry]
    /\ UNCHANGED <<startup, arguments, call, result, exit_status, mtime, clock, config_file, backup_fs, current_time,
                   current_version, io_in_progress, touches>>

MarkSuccess_last(success_so_far, ok) == ok
\* a slip: the result of the latest copy_item overwrites the earlier ones

MarkSuccess(success_so_far, ok) == success_so_far /\ ok
\* lines 302-306: backup_success stays True only while every copy_item returns True

MoreItems_shortcut(pos, n, success) == pos < n /\ success
\* a slip: the loop breaks at the first item that fails

MoreItems(pos, n, success) == pos < n
\* line 298: the for loop goes on to the next item whatever the earlier results were

ItemPaths(items) == [i \in 1..Len(items) |-> items[i].item_path]

CopyItem ==
    /\ pc = "copy"
    /\ k <= Len(changed_items)
    /\ \E ok \in BOOLEAN :
          LET item == changed_items[k]
              versioned_backup_dir ==
                  create_versioned_backup_path(pair.backup_dir, cfg.project_name, new_version)
              success == MarkSuccess(backup_success, ok)
              log == Append(copy_log, [item_path |-> item.item_path, ok |-> ok])
          IN  /\ backup_fs' = copy_item(backup_fs, IsDirItem(cfg, item.item_path),
                                        item.item_path,
                                        Destination(versioned_backup_dir, item), mtime, ok)
              /\ IF MoreItems(k, Len(changed_items), success) \/ success
                 THEN /\ backup_success' = success
                      /\ copy_log' = log
                      /\ k' = k + 1
                      /\ pc' = IF MoreItems(k, Len(changed_items), success)
                               THEN "copy" ELSE "persist"
                      /\ UNCHANGED <<idx, last_backup_times, pending_retry, changed_items,
                                     new_version>>
                 ELSE /\ EndTurn
                      /\ pending_retry' = [pending_retry EXCEPT ![idx] =
                            [items |-> ItemPaths(changed_items), log |-> log,
                             version |-> new_version]]
    /\ UNCHANGED <<startup, arguments, call, result, exit_status, mtime, clock, config_file, current_time, item_mod_times,
                   current_version, scan_error, prev_obs, io_in_progress, touches,
                   scan_errors>>

UpdateConfig ==
    /\ pc = "persist"
    /\ \E outcome \in UpdateOutcomes(config_file) :
          LET res == update_config_version(config_file, new_version, outcome)
          IN  /\ config_file' = res.file
              /\ current_version' = IF res.ok THEN new_version ELSE current_version
    /\ EndTurn
    /\ UNCHANGED <<startup, arguments, call, result, exit_status, mtime, clock, backup_fs, current_time, item_mod_times,
                   scan_error, prev_obs, pending_retry, io_in_progress, touches, scan_errors>>

Sleep ==
    /\ pc = "sleep"
    /\ \E d \in 1..2 :
          /\ clock + d <= Now0 + MaxElapsed
          /\ clock' = clock + d
    /\ pc' = "tick"
    /\ UNCHANGED <<startup, arguments, call, result, exit_status, mtime, config_file, backup_fs, current_time, idx,
                   item_mod_times, last_backup_times, current_version, changed_items, k,
                   backup_success, new_version, scan_error, copy_log, prev_obs,
                   pending_retry, io_in_progress, touches, scan_errors>>

(***************************************************************************)
(* The environment: a file or directory of a source tree is modified, which *)
(* stamps it with a later modification time, or it is removed.             *)
(***************************************************************************)
Touch ==
    /\ pc = "sleep"
    /\ touches < MaxTouches
    /\ \E q \in AllItems(cfg), m \in Mtimes \cup {Gone} :
          /\ mtime[q] # Gone
          /\ m \in {mtime[q] + 1, Gone}
          /\ mtime' = [mtime EXCEPT ![q] = m]
          /\ pending_retry' = [i \in 1..NumPairs |->
                                 IF IsPrefix(valid_pairs[i].source_dir, q) THEN NoRetry
                                 ELSE pending_retry[i]]
    /\ touches' = touches + 1
    /\ UNCHANGED <<startup, arguments, call, result, exit_status, clock, config_file, backup_fs, pc, current_time, idx,
                   item_mod_times, last_backup_times, current_version, changed_items, k,
                   backup_success, new_version, scan_error, copy_log, prev_obs,
                   io_in_progress, scan_errors>>

(***************************************************************************)
(* KeyboardInterrupt: raised wherever the loop is when the signal arrives. *)
(***************************************************************************)
Stop(during) ==
    /\ pc' = "stopped"
    /\ io_in_progress' = during
    /\ exit_status' = 0
    /\ UNCHANGED <<startup, arguments, call, result, mtime, clock, backup_fs, current_time, idx, item_mod_times,
                   last_backup_times, current_version, changed_items, k, backup_success,
                   new_version, scan_error, copy_log, prev_obs, pending_retry, touches,
                   scan_errors>>

InterruptInSleep ==
    /\ pc = "sleep"
    /\ Stop("none")
    /\ UNCHANGED config_file

InterruptInScan ==
    /\ TurnRuns
    /\ PairDue
    /\ Stop("scan")
    /\ UNCHANGED config_file

InterruptInCopy ==
    /\ pc = "copy"
    /\ k <= Len(changed_items)
    /\ Stop("copy")
    /\ UNCHANGED config_file

InterruptInWrite ==
    /\ pc = "persist"
    /\ config_file.ok
    /\ config_file' = Truncated
    /\ Stop("write")

Next ==
    \/ Main
    \/ Tick
    \/ UnexpectedError
    \/ SkipPair
    \/ ScanPair
    \/ CopyItem
    \/ UpdateConfig
    \/ Sleep
    \/ Touch
    \/ InterruptInSleep
    \/ InterruptInScan
    \/ InterruptInCopy
    \/ InterruptInWrite

Spec == Init /\ [][Next]_vars

(***************************************************************************)
(* is_path_excluded called on its own, on every path of up to three         *)
(* components and a few exclusion lists.                                   *)
(***************************************************************************)
nA == <<"a">>
nB == <<"b">>
nBc == <<"b", "c">>
nDotDot == <<".", ".">>
nDotDotC == <<".", ".", "c">>

PathNames == {nA, nB, nBc, nDotDot, nDotDotC}

TestedPaths == UNION {[1..n -> PathNames] : n \in 1..3}

ExclusionLists == {<<>>, << <<nA, nB>> >>, << <<nA>> >>, << <<nB>>, <<nA, nBc>> >>}

InitExcluded ==
    /\ startup = 4
    /\ arguments = MainArguments(Startups[startup])
    /\ InitLoop
    /\ pc = "call"
    /\ call \in [path : TestedPaths, excluded_paths : ExclusionLists]
    /\ result = NoCall

IsPathExcludedCall ==
    /\ pc = "call"
    /\ result' = is_path_excluded(call.path, call.excluded_paths)
    /\ pc' = "returned"
    /\ UNCHANGED <<startup, arguments, call, exit_status, mtime, clock, config_file,
                   backup_fs, current_time, idx, item_mod_times, last_backup_times,
                   current_version, changed_items, k, backup_success, new_version,
                   scan_error, copy_log, prev_obs, pending_retry, io_in_progress,
                   touches, scan_errors>>

NextExcluded == IsPathExcludedCall

SpecExcluded == InitExcluded /\ [][NextExcluded]_vars

(***************************************************************************)
(* The monitor loop started with each of a set of project_version values.  *)
(***************************************************************************)
VersionInputs == {
    <<"1", ".", "2", ".", "3", ".", "4">>,
    <<" ", "1", ".", "2", ".", "3", ".", "4", " ">>,
    <<"1", ".", "2">>,
    <<"7">>,
    <<"1", ".", "2", ".", "3", ".", "4", ".", "5">>,
    <<"1", ".", "x", ".", "3", ".", "4">>,
    <<"1", ".", ".", "2">>,
    <<>>,
    <<"+", "1", ".", "2", ".", "3", ".", "4">>,
    <<"1", ".", "-", "2", ".", "3", ".", "4">>,
    NotAString }

InitVersions ==
    /\ startup \in {3, 8}
    /\ \E v \in VersionInputs :
          arguments = [MainArguments(Startups[startup]) EXCEPT !.project_version = v]
    /\ InitLoop
    /\ pc = "main"
    /\ call = NoCall
    /\ result = NoCall

SpecVersions == InitVersions /\ [][Next]_vars

(***************************************************************************)
(* Properties.                                                             *)
(***************************************************************************)
AllOk(log) == \A i \in 1..Len(log) : log[i].ok

LogItems(log) == [i \in 1..Len(log) |-> log[i].item_path]

Component(version, i) == IntVal(Split(version, ".")[i])
\* the i-th number of a dotted version string

Build(version) == Component(version, 4)

StartVersion == parse_version(cfg.project_version)

CommitFailed(i) == pending_retry[i] # NoRetry
\* the latest commit of the i-th pair ended with backup_success False, and the
\* pair has not been scanned and its source tree has not been modified since

\* C1: a commit in which some copy_item call returned failure changes neither
\* the in-memory version nor the project_version stored in config.json: no step
\* of the copy phase changes them, and the configuration rewrite is only
\* reached by a commit whose copy_item calls all returned success.
C1_FailedCommitKeepsVersion ==
    [][/\ pc = "copy" => (current_version' = current_version /\ config_file' = config_file)
       /\ pc' = "persist" => AllOk(copy_log')
       /\ \A i \in 1..NumPairs :
             (pending_retry'[i] # NoRetry /\ pending_retry[i] = NoRetry)
                => (current_version' = current_version /\ config_file' = config_file)]_vars

C1_Witness ==
    /\ \E i \in 1..NumPairs : CommitFailed(i) /\ Len(pending_retry[i].items) >= 2
    /\ current_version = FormatVersion(StartVersion)
    /\ config_file.project_version = cfg.project_version

\* C2: the in-memory version changes only in its build component: it starts
\* as the four numbers parsed at startup, every step that changes it keeps
\* major, minor and patch and raises the build by exactly 1, and the step that
\* rewrites config.json after a commit that copied every item is such a step.
C2_OnlyBuildChanges ==
    /\ Len(Split(current_version, ".")) = 4
    /\ \A i \in 1..4 : Component(current_version, i) = StartVersion[i]
    /\ [][/\ (current_version' # current_version) =>
                (/\ Len(Split(current_version', ".")) = 4
                 /\ \A i \in 1..3 :
                       Component(current_version', i) = Component(current_version, i)
                 /\ Build(current_version') = Build(current_version) + 1)
          /\ (pc = "persist" /\ config_file'.ok /\ config_file' # config_file) =>
                (Build(current_version') = Build(current_version) + 1)]_vars

C2_Witness ==
    /\ clock = Now0
    /\ pc = "sleep"
    /\ Build(current_version) = StartVersion[4] + 2
    /\ config_file.project_version = current_version

\* C8: in a commit with N changed items copy_item is called for all N items in
\* list order whatever the earlier calls returned, the commit is marked failed
\* exactly when at least one call returned failure, and from the copy phase the
\* loop is only ever left by a KeyboardInterrupt, never by a failed copy.
C8_AllItemsAttempted ==
    /\ [](/\ pc = "copy" =>
               /\ LogItems(copy_log) = SubSeq(ItemPaths(changed_items), 1, k - 1)
               /\ backup_success = AllOk(copy_log)
          /\ pc = "persist" =>
               /\ LogItems(copy_log) = ItemPaths(changed_items)
               /\ AllOk(copy_log)
          /\ \A i \in 1..NumPairs :
                CommitFailed(i) =>
                   /\ LogItems(pending_retry[i].log) = pending_retry[i].items
                   /\ ~AllOk(pending_retry[i].log))
    /\ [][(pc = "copy" /\ pc' = "stopped") => io_in_progress' = "copy"]_vars

C8_Witness ==
    \E i \in 1..NumPairs :
       /\ CommitFailed(i)
       /\ Len(pending_retry[i].log) >= 2
       /\ ~pending_retry[i].log[1].ok
       /\ pc # "stopped"

NestedUnder(path, excluded_paths) ==
    \E i \in 1..Len(excluded_paths) : IsPrefix(excluded_paths[i], path)
\* the path is one of the excluded paths or lies below one

Reachable(source_dir, path) ==
    /\ IsPrefix(source_dir, path)
    /\ path # source_dir
    /\ \A n \in (Len(source_dir) + 1)..Len(path) : mtime[SubSeq(path, 1, n)] # Gone
\* the item and the directories between it and the source root exist

ScanStep == TurnRuns /\ PairDue /\ pc' # "stopped" /\ ~scan_error'
\* the step is a scan of the pair whose turn it is, not cut short by an error

Changed(items) == {items[i].item_path : i \in 1..Len(items)}

\* C3: after a commit of a pair failed, the next scan of that pair (the source
\* tree not modified in between) starts a commit with the same build number
\* whose changed items include every item of the failed commit.
C3_FailedCommitRetried ==
    [][(ScanStep /\ CommitFailed(idx)) =>
          /\ pc' = "copy"
          /\ new_version' = pending_retry[idx].version
          /\ \A i \in 1..Len(pending_retry[idx].items) :
                pending_retry[idx].items[i] \in Changed(changed_items')]_vars

\* C4: the in-memory version and the project_version stored in config.json
\* change only together, after a commit in which every item was copied; when
\* update_config_version fails the in-memory version stays and the loop goes on.
C4_VersionAndConfigTogether ==
    [][/\ (current_version' # current_version) <=> (config_file' # config_file)
       /\ (config_file' # config_file) => (pc = "persist" /\ AllOk(copy_log))
       /\ (pc = "persist" /\ current_version' = current_version) => pc' # "stopped"]_vars

\* C5: no pair's modification-time table holds a path equal to or below one of
\* that pair's excluded paths, and no changed-item list of a pair names one.
C5_ExcludedNeverTracked ==
    /\ \A i \in 1..NumPairs : \A q \in AllItems(cfg) :
          item_mod_times[valid_pairs[i].source_dir][q] # NoEntry
             => ~NestedUnder(q, ExcludedPaths(valid_pairs[i].index))
    /\ pc = "copy" =>
          \A q \in Changed(changed_items) : ~NestedUnder(q, ExcludedPaths(pair.index))

\* C6: for a non-excluded item read by two consecutive scans of a pair, the
\* second scan lists it as changed exactly when its modification time differs
\* from the one the first scan read.
C6_ReportedOncePerChange ==
    [][ScanStep =>
          \A q \in AllItems(cfg) :
             (/\ Reachable(pair.source_dir, q)
              /\ ~NestedUnder(q, ExcludedPaths(pair.index))
              /\ prev_obs[idx][q] # NoEntry)
                => ((q \in Changed(changed_items')) <=> (mtime[q] # prev_obs[idx][q]))]_vars

\* C7: an existing, readable, non-excluded item without an entry in the pair's
\* table is listed as changed by the scan that sees it, and its modification
\* time is recorded.
C7_NewItemReported ==
    [][ScanStep =>
          \A q \in AllItems(cfg) :
             (/\ Reachable(pair.source_dir, q)
              /\ ~NestedUnder(q, ExcludedPaths(pair.index))
              /\ item_mod_times[pair.source_dir][q] = NoEntry)
                => /\ q \in Changed(changed_items')
                   /\ item_mod_times'[pair.source_dir][q] = mtime[q]]_vars

ConfiguredDelay(i) ==
    IF Str(valid_pairs[i].index) \in DOMAIN cfg.backup_times
    THEN IntVal(cfg.backup_times[Str(valid_pairs[i].index)])
    ELSE 5
\* the delay configured for the pair, 5 seconds when there is none

C10_InterruptBetweenTicks ==
    pc = "stopped" => (io_in_progress = "none" /\ config_file.ok)

NoUsablePair ==
    \/ Startups[startup].file # "ok"
    \/ ConfiguredIndices(Startups[startup].source_dirs, Startups[startup].backup_dirs) = <<>>
    \/ NumPairs = 0
\* config.json is missing or not parsable, or it yields no source/backup pair,
\* or validate_directories rejects every pair

\* C11: a process that ends because config.json is missing or unparsable,
\* yields no pair, or has every pair rejected ends with a non-zero exit status,
\* and an exit status of 0 comes only from a monitor loop that was stopped.
C11_NonZeroExitWithoutPairs ==
    /\ (pc = "exited" /\ NoUsablePair) => exit_status # 0
    /\ exit_status = 0 => pc = "stopped"

Interrupted == InterruptInSleep \/ InterruptInScan \/ InterruptInCopy \/ InterruptInWrite
\* the step is a KeyboardInterrupt

\* C12: the monitor loop is left only by a KeyboardInterrupt or by an exception
\* that line 327 catches, and a loop that was left takes no further step; the
\* step after a scan error, a failed copy_item or a failed rewrite of
\* config.json is the next step of the same turn or the turn of the next
\* pair, and a tick reaches its sleep only after every pair had its turn.
C12_OnlyInterruptOrExceptionStops ==
    /\ [](/\ pc = "pair" => idx \in 1..NumPairs
          /\ pc \in {"copy", "persist"} => idx \in 1..NumPairs
          /\ pc = "sleep" => idx = NumPairs + 1)
    /\ [][/\ (pc # "stopped" /\ pc' = "stopped") => (Interrupted \/ UnexpectedError)
          /\ pc = "stopped" => pc' = "stopped"
          /\ (pc = "pair" /\ scan_error' /\ scan_errors' > scan_errors) =>
                (\/ pc' = "copy" /\ idx' = idx
                 \/ pc' \in {"pair", "sleep"} /\ idx' = idx + 1)
          /\ (pc = "copy" /\ ~Interrupted) =>
                (\/ pc' \in {"copy", "persist"} /\ idx' = idx
                 \/ pc' \in {"pair", "sleep"} /\ idx' = idx + 1)
          /\ (pc = "persist" /\ ~Interrupted) =>
                (pc' \in {"pair", "sleep"} /\ idx' = idx + 1)
          /\ pc = "sleep" => pc' \in {"tick", "sleep", "stopped"}]_vars

C12_Witness ==
    /\ pc = "tick"
    /\ clock > Now0
    /\ scan_errors > 0
    /\ ~config_file.ok
    /\ \E i \in 1..NumPairs : CommitFailed(i)

\* C13: the rewrite of config.json keeps every key other than project_version,
\* and a rewrite that reports failure (the in-memory version is then not
\* updated) leaves the stored configuration as it was.
C13_RewriteKeepsOtherKeys ==
    [][(pc = "persist" /\ ~Interrupted) =>
          /\ config_file'.ok = config_file.ok
          /\ config_file'.project_name = config_file.project_name
          /\ current_version' = current_version => config_file' = config_file]_vars

OriginalIndex(i) ==
    ConfiguredIndices(Startups[startup].source_dirs, Startups[startup].backup_dirs)
        [valid_pairs[i].index + 1]
\* the key of config.json under which the source directory of the i-th valid
\* pair is configured

ConfiguredExclusions(key, source_dir) ==
    LET list == DictGet(Startups[startup].excluded_dirs, key, <<>>)
    IN  [j \in 1..Len(list) |-> normalize_path(source_dir \o list[j].path)]
\* the excluded_dirs entries of config.json under the key, as full paths

\* C14: at the turn of a valid pair, the delay and the exclusion list in use
\* are those that config.json holds under the pair's original index.
C14_SettingsOfOriginalIndex ==
    TurnRuns =>
       /\ Delay(pair.index) =
             IntVal(DictGet(Startups[startup].backup_times, Str(OriginalIndex(idx)),
                            Str(DefaultDelay)))
       /\ ExcludedPaths(pair.index) =
             ConfiguredExclusions(Str(OriginalIndex(idx)), pair.source_dir)

\* C15: a scan that an error cuts short counts as a scan without changes: the
\* turn of the pair ends there, no version is computed and nothing is copied,
\* and the next pair's turn or the sleep follows.
C15_ScanErrorMeansNoChanges ==
    [][(TurnRuns /\ scan_errors' > scan_errors) =>
          /\ pc' \in {"pair", "sleep"}
          /\ idx' = idx + 1
          /\ changed_items' = <<>>
          /\ new_version' = <<>>
          /\ backup_fs' = backup_fs]_vars

\* C16: is_path_excluded returns true exactly when the normalized path is one
\* of the excluded paths or lies below one, component by component, whatever
\* the names of the components are.
C16_ExcludedIffNested ==
    pc = "returned" =>
       (result <=> NestedUnder(normalize_path(call.path), call.excluded_paths))

VersionFolder(i, version) ==
    Append(valid_pairs[i].backup_dir, cfg.project_name \o <<"_", "v">> \o version)
\* <backup_dir>/<project_name>_v<version> of the i-th valid pair

BackupPathOf(i, version, q) ==
    VersionFolder(i, version) \o
       SubSeq(q, Len(valid_pairs[i].source_dir) + 1, Len(q))
\* the folder followed by the path of q relative to the pair's source root

FolderContent(i, version) == {e \in backup_fs : IsPrefix(VersionFolder(i, version), e)}

Monitored(i, q) ==
    /\ Reachable(valid_pairs[i].source_dir, q)
    /\ ~NestedUnder(q, ExcludedPaths(valid_pairs[i].index))
\* q exists below the source root of the i-th pair and is not excluded for it

FullBackup(i) ==
    /\ \A q \in AllItems(cfg) : IsPrefix(valid_pairs[i].source_dir, q) => mtime[q] # Gone
    /\ \A q \in AllItems(cfg) :
          Monitored(i, q) => BackupPathOf(i, current_version, q) \in backup_fs
\* the i-th pair's folder of the current version holds every monitored item

OnlyFileModified(i, q) ==
    /\ Monitored(i, q)
    /\ ~IsDirItem(cfg, q)
    /\ prev_obs[i][q] \notin {NoEntry, mtime[q]}
    /\ \A r \in AllItems(cfg) : (Monitored(i, r) /\ r # q) => prev_obs[i][r] = mtime[r]
\* since the latest scan of the i-th pair, q and no other monitored item changed

\* C17: a successful copy_item writes the item at
\* <backup_dir>/<project_name>_v<new version>/<path relative to the source root>
\* and writes nothing outside that folder; and the scan of a pair that has a
\* full backup at the current version and exactly one modified file starts a
\* commit of that file alone into a still empty folder of the next build number.
C17_LayoutAndSingleFile ==
    [][/\ (pc = "copy" /\ backup_fs' # backup_fs) =>
             /\ BackupPathOf(idx, new_version, changed_items[k].item_path) \in backup_fs'
             /\ \A e \in backup_fs' \ backup_fs :
                   IsPrefix(VersionFolder(idx, new_version), e)
       /\ \A q \in AllItems(cfg) :
             (ScanStep /\ FullBackup(idx) /\ OnlyFileModified(idx, q)) =>
                /\ pc' = "copy"
                /\ Changed(changed_items') = {q}
                /\ Len(changed_items') = 1
                /\ new_version' = increment_build_number(parse_version(current_version))
                /\ FolderContent(idx, new_version') = {}]_vars

SourceOf(i, e) ==
    valid_pairs[i].source_dir \o SubSeq(e, Len(valid_pairs[i].backup_dir) + 2, Len(e))
\* the source path of an entry written below a version folder of the i-th pair

\* C18: nothing that lies in a backup directory of a pair comes from a source
\* path equal to or below one of that pair's excluded paths.
C18_ExcludedNeverCopied ==
    \A i \in 1..NumPairs : \A e \in backup_fs :
       (IsPrefix(valid_pairs[i].backup_dir, e) /\ Len(e) >= Len(valid_pairs[i].backup_dir) + 2)
          => ~NestedUnder(SourceOf(i, e), ExcludedPaths(valid_pairs[i].index))

TableOf(tables, i) == tables[valid_pairs[i].source_dir]
\* what the program holds for the i-th pair in a dictionary keyed by source_dir

\* C19: the turn of a pair changes no other pair's modification-time table or
\* last-backup timestamp, and every valid pair is scanned at its turn in the
\* first tick.
C19_TablesPerPair ==
    [][(pc \in {"pair", "copy", "persist"} /\ idx \in 1..NumPairs) =>
          /\ \A j \in 1..NumPairs :
                j # idx => /\ TableOf(item_mod_times', j) = TableOf(item_mod_times, j)
                           /\ TableOf(last_backup_times', j) = TableOf(last_backup_times, j)
          /\ (TurnRuns /\ current_time = Now0) => PairDue]_vars

ConfiguredParts == Split(cfg.project_version, ".")
\* the dot-separated components of the configured project_version string

\* C20: whatever project_version was configured, the version the loop holds
\* has exactly four components, each a non-negative integer; when the loop is
\* entered it is 1.0.0.0 for an input with a non-numeric component among its
\* first four, and otherwise the first four configured numbers, zero-padded.
C20_FourNonNegativeComponents ==
    /\ Len(Split(current_version, ".")) = 4
    /\ \A i \in 1..4 : AllDigits(Split(current_version, ".")[i])
    /\ (pc = "main" /\ cfg.project_version # NotAString) =>
          IF \A i \in 1..Min(4, Len(ConfiguredParts)) : IntOk(ConfiguredParts[i])
          THEN \A i \in 1..4 :
                  Component(current_version, i) =
                     (IF i <= Len(ConfiguredParts) THEN IntVal(ConfiguredParts[i]) ELSE 0)
          ELSE current_version = FormatVersion(DefaultVersion)
    /\ (pc = "main" /\ cfg.project_version = NotAString) =>
          current_version = FormatVersion(DefaultVersion)

====
